---- MODULE Spec2Model ----
(***************************************************************************)
(* A model of Dream11Predictor (src/Backend/team.py): the player registry, *)
(* the score aggregation and the constrained greedy team selection.        *)
(*                                                                         *)
(* Texts (player names, role texts, roster entries, venue names) are       *)
(* sequences of one-character strings, so that substring tests, strip(),   *)
(* lower() and the "Name(Role)" parsing are computed and not assumed.      *)
(* Credits are whole credits; scores are in hundredths of a point.         *)
(* A Python dict is a function whose DOMAIN is the set of its keys; a dict *)
(* whose iteration order matters (player_scores) is a sequence of          *)
(* <<key, value>> pairs in insertion order.  None is <<>> and a present    *)
(* name n is <<n>>.                                                        *)
(***************************************************************************)
EXTENDS Integers, Sequences, FiniteSets, TLC

VARIABLES
    batter_data,        \* self.batter_data: name -> record of history
    bowler_data,        \* self.bowler_data
    teams_data,         \* self.teams_data: sequence of <<team_name, rows>>
    player_scores,      \* self.player_scores, in insertion order
    selected_team,      \* self.selected_team
    player_roles,       \* self.player_roles
    player_credits,     \* self.player_credits
    player_is_foreign,  \* self.player_is_foreign
    player_teams,       \* self.player_teams
    team_counts,        \* self.team_counts (a defaultdict(int))
    role_team_counts,   \* self.role_team_counts (a defaultdict of defaultdicts)
    pc,                 \* where the running call stands; "idle" when none runs
    caller,             \* "predict" when select_dream11_team runs inside predict_dream11
    args,               \* the arguments of the running predict_dream11
    sorted_players,     \* local of select_dream11_team
    selected_players,   \* local of the running call
    total_credits,      \* local (and parameter) of the running call
    foreign_count,      \* local (and parameter) of the running call
    idx,                \* items the for loop of the running call has consumed
    result,             \* what the last finished call returned (or raised)
    examined,           \* history: the candidates the running pass has examined
    fresh,              \* history: no predict_dream11 has run on this instance yet
    log                 \* history: the finished predict_dream11 calls

vars == <<batter_data, bowler_data, teams_data, player_scores, selected_team,
          player_roles, player_credits, player_is_foreign, player_teams,
          team_counts, role_team_counts, pc, caller, args, sorted_players,
          selected_players, total_credits, foreign_count, idx, result,
          examined, fresh, log>>

-----------------------------------------------------------------------------
(* Bounds of the model *)

\* candidates in the score table when select_dream11_team is entered directly
NumCandidates == 13
\* predict_dream11 calls recorded in one behaviour
MaxRuns == 3

-----------------------------------------------------------------------------
(* Python text primitives *)

\* the letters str.lower() changes
LowerOf ==
    ("A" :> "a") @@ ("B" :> "b") @@ ("C" :> "c") @@ ("D" :> "d") @@ ("E" :> "e") @@ ("F" :> "f") @@
    ("G" :> "g") @@ ("H" :> "h") @@ ("I" :> "i") @@ ("J" :> "j") @@ ("K" :> "k") @@ ("L" :> "l") @@
    ("M" :> "m") @@ ("N" :> "n") @@ ("O" :> "o") @@ ("P" :> "p") @@ ("Q" :> "q") @@ ("R" :> "r") @@
    ("S" :> "s") @@ ("T" :> "t") @@ ("U" :> "u") @@ ("V" :> "v") @@ ("W" :> "w") @@ ("X" :> "x") @@
    ("Y" :> "y") @@ ("Z" :> "z")

lower_char(c) == IF c \in DOMAIN LowerOf THEN LowerOf[c] ELSE c

\* str.lower()
lower(s) == [i \in 1..Len(s) |-> lower_char(s[i])]

SetMin(S) == CHOOSE x \in S : \A y \in S : x <= y
SetMax(S) == CHOOSE x \in S : \A y \in S : x >= y

\* str.strip()
strip(s) ==
    LET keep == {i \in 1..Len(s) : s[i] # " "}
    IN  IF keep = {} THEN <<>> ELSE SubSeq(s, SetMin(keep), SetMax(keep))

\* token in text
Contains(text, token) ==
    \E i \in 0..(Len(text) - Len(token)) :
        SubSeq(text, i + 1, i + Len(token)) = token

\* text.split('(', 1)
split_paren(s) ==
    LET at == {i \in 1..Len(s) : s[i] = "("}
    IN  IF at = {} THEN <<s>>
        ELSE <<SubSeq(s, 1, SetMin(at) - 1), SubSeq(s, SetMin(at) + 1, Len(s))>>

\* text.endswith(')')
endswith_paren(s) == Len(s) > 0 /\ s[Len(s)] = ")"

\* dict.get(k, default)
Get(d, k, default) == IF k \in DOMAIN d THEN d[k] ELSE default

\* d[k] = v
Put(d, k, v) == [x \in (DOMAIN d) \cup {k} |-> IF x = k THEN v ELSE d[x]]

EmptyDict == [x \in {} |-> 0]

-----------------------------------------------------------------------------
(* Role texts and the two role classifiers of the code *)

T_WK == <<"W", "K">>
T_Bowler == <<"B", "o", "w", "l", "e", "r">>
T_All_Rounder == <<"A", "l", "l", "-", "R", "o", "u", "n", "d", "e", "r">>
T_Allrounder == <<"A", "l", "l", "r", "o", "u", "n", "d", "e", "r">>
T_All_rounder == <<"A", "l", "l", "-", "r", "o", "u", "n", "d", "e", "r">>
T_AllSpRounder == <<"A", "l", "l", " ", "R", "o", "u", "n", "d", "e", "r">>
T_Batter == <<"B", "a", "t", "t", "e", "r">>
T_Batsman == <<"B", "a", "t", "s", "m", "a", "n">>
T_Unknown == <<"U", "n", "k", "n", "o", "w", "n">>

\* the names categorize_players files under wicket_keepers when the role text says nothing
WK_NAMES == {
    <<"M", "S", " ", "D", "h", "o", "n", "i">>,
    <<"R", "i", "s", "h", "a", "b", "h", " ", "P", "a", "n", "t">>,
    <<"K", "L", " ", "R", "a", "h", "u", "l">>,
    <<"S", "a", "n", "j", "u", " ", "S", "a", "m", "s", "o", "n">>,
    <<"I", "s", "h", "a", "n", " ", "K", "i", "s", "h", "a", "n">>,
    <<"N", "i", "c", "h", "o", "l", "a", "s", " ", "P", "o", "o", "r", "a", "n">>,
    <<"J", "o", "s", "h", " ", "I", "n", "g", "l", "i", "s">>,
    <<"P", "r", "a", "b", "h", "s", "i", "m", "r", "a", "n", " ", "S", "i", "n", "g", "h">> }

\* _simplify_role, on the role text
simplify_role_text(role) ==
    IF Contains(role, T_WK) THEN "WK"
    ELSE IF Contains(role, T_Bowler) THEN "BOWL"
    ELSE IF Contains(role, T_All_Rounder) \/ Contains(role, T_Allrounder) THEN "ALL"
    ELSE IF Contains(role, T_Batter) \/ Contains(role, T_Batsman) THEN "BAT"
    ELSE "BAT"

\* _simplify_role(player), reading the registry `roles`
simplify_role(roles, player) == simplify_role_text(Get(roles, player, T_Unknown))

\* the list categorize_players appends (player, score) to, for one player
categorize_one(role, player, bat, bowl) ==
    IF Contains(role, T_WK) THEN "wicket_keepers"
    ELSE IF Contains(role, T_Bowler) THEN "bowlers"
    ELSE IF \/ Contains(role, T_All_Rounder) \/ Contains(role, T_Allrounder)
            \/ Contains(role, T_All_rounder) \/ Contains(role, T_AllSpRounder)
         THEN "all_rounders"
    ELSE IF Contains(role, T_Batter) \/ Contains(role, T_Batsman) THEN "batsmen"
    ELSE IF player \in DOMAIN bat /\ player \notin DOMAIN bowl
         THEN (IF player \in WK_NAMES THEN "wicket_keepers" ELSE "batsmen")
    ELSE IF player \in DOMAIN bowl /\ player \notin DOMAIN bat THEN "bowlers"
    ELSE "all_rounders"

-----------------------------------------------------------------------------
(* select_dream11_team *)

MAX_TEAM_PLAYERS == 6
MAX_ROLE_PER_TEAM == [WK |-> 2, BAT |-> 3, ALL |-> 3, BOWL |-> 3]
max_foreign == 4
max_credits == 100
TEAM_SIZE == 11
DEFAULT_CREDITS == 7
UnknownTeam == "Unknown"

\* reading defaultdict(int)[k]: the value, 0 for a key not yet there
Count(tc, team) == Get(tc, team, 0)
\* reading defaultdict(lambda: defaultdict(int))[team][role]
RoleCount(rtc, team, role) == Get(Get(rtc, team, EmptyDict), role, 0)
\* what reading tc[team] leaves in the defaultdict: the key, at 0 if it was missing
Touch(tc, team) == Put(tc, team, Count(tc, team))
TouchRole(rtc, team, role) ==
    Put(rtc, team, Put(Get(rtc, team, EmptyDict), role, RoleCount(rtc, team, role)))

\* a faulty variant: among equal scores the later item comes first
RankDesc_TiesReversed(items, i) ==
    Cardinality({j \in 1..Len(items) :
        \/ items[j][2] > items[i][2]
        \/ items[j][2] = items[i][2] /\ j > i}) + 1

\* where sorted(items, key=score, reverse=True) puts items[i]: after every item of a
\* higher score and, the sort being stable, after the earlier items of the same score
RankDesc(items, i) ==
    Cardinality({j \in 1..Len(items) :
        \/ items[j][2] > items[i][2]
        \/ items[j][2] = items[i][2] /\ j < i}) + 1

\* sorted(self.player_scores.items(), key=lambda x: x[1], reverse=True)
SortedDesc(items) ==
    [k \in 1..Len(items) |-> items[CHOOSE i \in 1..Len(items) : RankDesc(items, i) = k]]

\* the four checks of the loop body, in the order the code makes them
TeamFull(tc, team) == Count(tc, team) >= MAX_TEAM_PLAYERS
\* a faulty variant: the role cap bites one player early
RoleFull_OneEarly(rtc, team, role) == RoleCount(rtc, team, role) >= MAX_ROLE_PER_TEAM[role] - 1
RoleFull(rtc, team, role) == RoleCount(rtc, team, role) >= MAX_ROLE_PER_TEAM[role]
\* a faulty variant: the budget is tested before the candidate's credits are added
OverBudget_BeforeAdding(total, credits) == total > max_credits
OverBudget(total, credits) == total + credits > max_credits
\* a faulty variant: the foreign cap is never tested
ForeignFull_Never(is_foreign, fcount) == FALSE
ForeignFull(is_foreign, fcount) == is_foreign /\ fcount >= max_foreign

\* a faulty variant: every selected player is counted as foreign
CountForeign_Everyone(is_foreign, fcount) == fcount + 1

\* lines 336-337: if is_foreign: foreign_count += 1
CountForeign(is_foreign, fcount) == IF is_foreign THEN fcount + 1 ELSE fcount

\* a faulty variant: the loop has no break
TeamComplete_Never(team) == FALSE

\* the loop stops once it has this many players
TeamComplete(team) == Len(team) = TEAM_SIZE

\* a faulty variant: the counters of the previous selection are kept
ResetCounters_Skipped == UNCHANGED <<team_counts, role_team_counts>>

\* lines 313-314: both counters are replaced by empty defaultdicts
ResetCounters ==
    /\ team_counts' = EmptyDict
    /\ role_team_counts' = EmptyDict

\* lines 305-314: sort the score table, reset the locals and the counters
SelectStart ==
    /\ pc = "select"
    /\ sorted_players' = SortedDesc(player_scores)
    /\ selected_players' = <<>>
    /\ total_credits' = 0
    /\ foreign_count' = 0
    /\ ResetCounters
    /\ idx' = 0
    /\ examined' = <<>>
    /\ pc' = IF player_scores = <<>> THEN "assign" ELSE "loop"
    /\ UNCHANGED <<batter_data, bowler_data, teams_data, player_scores, selected_team,
                   player_roles, player_credits, player_is_foreign, player_teams,
                   caller, args, result, fresh, log>>

\* one iteration of the for loop, lines 315-339
SelectStep ==
    /\ pc = "loop"
    /\ LET player == sorted_players[idx + 1][1]
           score == sorted_players[idx + 1][2]
           credits == Get(player_credits, player, DEFAULT_CREDITS)
           is_foreign == Get(player_is_foreign, player, FALSE)
           team == Get(player_teams, player, UnknownTeam)
           role_category == simplify_role(player_roles, player)
           tc1 == Touch(team_counts, team)
           rtc1 == TouchRole(role_team_counts, team, role_category)
           more == IF idx + 1 < Len(sorted_players) THEN "loop" ELSE "assign"
       IN  /\ examined' = Append(examined, player)
           /\ idx' = idx + 1
           /\ IF TeamFull(team_counts, team)
              THEN /\ team_counts' = tc1
                   /\ pc' = more
                   /\ UNCHANGED <<role_team_counts, selected_players,
                                  total_credits, foreign_count>>
              ELSE IF RoleFull(role_team_counts, team, role_category)
              THEN /\ team_counts' = tc1
                   /\ role_team_counts' = rtc1
                   /\ pc' = more
                   /\ UNCHANGED <<selected_players, total_credits, foreign_count>>
              ELSE IF \/ OverBudget(total_credits, credits)
                      \/ ForeignFull(is_foreign, foreign_count)
              THEN /\ team_counts' = tc1
                   /\ role_team_counts' = rtc1
                   /\ pc' = more
                   /\ UNCHANGED <<selected_players, total_credits, foreign_count>>
              ELSE /\ selected_players' = Append(selected_players, <<player, score>>)
                   /\ team_counts' = Put(tc1, team, tc1[team] + 1)
                   /\ role_team_counts' =
                          Put(rtc1, team,
                              Put(rtc1[team], role_category, rtc1[team][role_category] + 1))
                   /\ total_credits' = total_credits + credits
                   /\ foreign_count' = CountForeign(is_foreign, foreign_count)
                   /\ pc' = IF TeamComplete(selected_players') THEN "assign" ELSE more
    /\ UNCHANGED <<batter_data, bowler_data, teams_data, player_scores, selected_team,
                   player_roles, player_credits, player_is_foreign, player_teams,
                   caller, args, sorted_players, result, fresh, log>>

\* a faulty variant: the captain is taken from index 1 and the vice-captain from index 0
Captaincy_Swapped(team) ==
    IF Len(team) >= 2
    THEN [captain |-> <<team[2][1]>>, vice_captain |-> <<team[1][1]>>]
    ELSE [captain |-> <<>>, vice_captain |-> <<>>]

\* lines 342-347: the captain and the vice-captain of a team
Captaincy(team) ==
    IF Len(team) >= 2
    THEN [captain |-> <<team[1][1]>>, vice_captain |-> <<team[2][1]>>]
    ELSE [captain |-> <<>>, vice_captain |-> <<>>]

\* what select_dream11_team returns
SelectResult(team, total, fcount) ==
    [team |-> team,
     captain |-> Captaincy(team).captain,
     vice_captain |-> Captaincy(team).vice_captain,
     total_credits |-> total,
     foreign_count |-> fcount]

\* lines 340-347, and lines 374-376 when predict_dream11 made the call
SelectReturn ==
    /\ pc = "assign"
    /\ selected_team' = selected_players
    /\ result' = SelectResult(selected_players, total_credits, foreign_count)
    /\ pc' = "idle"
    /\ IF caller = "predict"
       THEN /\ log' = Append(log, [args |-> args, fresh |-> fresh, scores |-> player_scores,
                                   result |-> result'])
            /\ fresh' = FALSE
       ELSE UNCHANGED <<log, fresh>>
    /\ UNCHANGED <<batter_data, bowler_data, teams_data, player_scores,
                   player_roles, player_credits, player_is_foreign, player_teams,
                   team_counts, role_team_counts, caller, args, sorted_players,
                   selected_players, total_credits, foreign_count, idx, examined>>

-----------------------------------------------------------------------------
(* The score table: a dict in insertion order *)

HasKey(items, k) == \E i \in 1..Len(items) : items[i][1] = k
ValueOf(items, k) == items[CHOOSE i \in 1..Len(items) : items[i][1] = k][2]
Keys(items) == [i \in 1..Len(items) |-> items[i][1]]

\* a faulty variant: a new player enters the table with one hundredth of a point
SetDefaultZero_StartsAtOne(items, k) ==
    IF HasKey(items, k) THEN items ELSE Append(items, <<k, 1>>)

\* if player not in self.player_scores: self.player_scores[player] = 0
SetDefaultZero(items, k) == IF HasKey(items, k) THEN items ELSE Append(items, <<k, 0>>)

\* self.player_scores[k] += d
AddScore(items, k, d) ==
    [i \in 1..Len(items) |-> IF items[i][1] = k THEN <<k, items[i][2] + d>> ELSE items[i]]

-----------------------------------------------------------------------------
(* Historical data.  A JSON value of a record is Num(n) for a number and   *)
(* Str(ok, n) for a string, which float() parses to n when ok.  A          *)
(* head-to-head entry is Rec(fields), a JSON object, or List(items).       *)

Num(n) == [t |-> "num", ok |-> TRUE, v |-> n]
Str(ok, n) == [t |-> "str", ok |-> ok, v |-> n]
Rec(fields) == [kind |-> "dict", f |-> fields, items |-> <<>>]
List(items) == [kind |-> "list", f |-> EmptyDict, items |-> items]

\* lines 103-104: a non-empty list of encounters stands for its first one
first_encounter(h) == IF h.kind = "list" /\ Len(h.items) > 0 THEN h.items[1] ELSE h

\* lines 107-119: the batting contribution of one head-to-head entry, in hundredths;
\* arithmetic on a string raises TypeError, which the code swallows
batting_h2h_score(h0) ==
    LET h == first_encounter(h0)
    IN  IF h.kind = "dict" /\ "Message" \notin DOMAIN h.f
        THEN LET strike_rate == Get(h.f, "Strike Rate", Num(0))
                 avg == Get(h.f, "Average", Num(0))
                 boundary_pct == Get(h.f, "Boundary %", Num(0))
                 dismissals == Get(h.f, "Dismissals", Num(0))
             IN  IF \A x \in {strike_rate, avg, boundary_pct, dismissals} : x.t = "num"
                 THEN strike_rate.v * 2 + avg.v * 10 + boundary_pct.v * 10
                      - dismissals.v * 200
                 ELSE 0
        ELSE 0

DEFAULT_ECON == 15
ECON_CAP == 10

\* 10 - min(economy, 10), in points
economy_points(economy) == ECON_CAP - (IF economy < ECON_CAP THEN economy ELSE ECON_CAP)

\* lines 132-142: the bowling contribution of one head-to-head entry, in hundredths;
\* float() of an unparsable string raises ValueError, which the code swallows
bowling_h2h_score(h) ==
    IF h.kind = "dict"
    THEN LET dismissals == Get(h.f, "Dismissals", Num(0))
             economy == Get(h.f, "Econ", Num(DEFAULT_ECON))
         IN  IF dismissals.ok /\ economy.ok
             THEN dismissals.v * 500 + economy_points(economy.v) * 100
             ELSE 0
    ELSE 0

\* record.get('head_to_head', {})
h2h_of(rec) == Get(rec, "head_to_head", EmptyDict)

\* lines 98-119: what one batter earns against the opposing players, in their order
RECURSIVE batting_total(_, _)
batting_total(h2h, opponents) ==
    IF opponents = <<>> THEN 0
    ELSE (IF Head(opponents) \in DOMAIN h2h
          THEN batting_h2h_score(h2h[Head(opponents)]) ELSE 0)
         + batting_total(h2h, Tail(opponents))

\* lines 127-142: what one bowler earns against the opposing players
RECURSIVE bowling_total(_, _)
bowling_total(h2h, opponents) ==
    IF opponents = <<>> THEN 0
    ELSE (IF Head(opponents) \in DOMAIN h2h
          THEN bowling_h2h_score(h2h[Head(opponents)]) ELSE 0)
         + bowling_total(h2h, Tail(opponents))

\* A for loop over players is a recursion on its state st: the score table so far
\* (st.scores) and the players still to come (st.todo).

\* lines 92-119: the first loop of analyze_head_to_head
RECURSIVE h2h_batters_loop(_, _, _)
h2h_batters_loop(st, bd, bowlers) ==
    IF st.todo = <<>> THEN st.scores
    ELSE LET batter == Head(st.todo)
             s1 == SetDefaultZero(st.scores, batter)
             s2 == IF batter \in DOMAIN bd
                   THEN AddScore(s1, batter, batting_total(h2h_of(bd[batter]), bowlers))
                   ELSE s1
         IN  h2h_batters_loop([scores |-> s2, todo |-> Tail(st.todo)], bd, bowlers)

h2h_batters(scores, bd, batters, bowlers) ==
    h2h_batters_loop([scores |-> scores, todo |-> batters], bd, bowlers)

\* lines 121-142: the second loop of analyze_head_to_head
RECURSIVE h2h_bowlers_loop(_, _, _)
h2h_bowlers_loop(st, bwd, batters) ==
    IF st.todo = <<>> THEN st.scores
    ELSE LET bowler == Head(st.todo)
             s1 == SetDefaultZero(st.scores, bowler)
             s2 == IF bowler \in DOMAIN bwd
                   THEN AddScore(s1, bowler, bowling_total(h2h_of(bwd[bowler]), batters))
                   ELSE s1
         IN  h2h_bowlers_loop([scores |-> s2, todo |-> Tail(st.todo)], bwd, batters)

h2h_bowlers(scores, bwd, bowlers, batters) ==
    h2h_bowlers_loop([scores |-> scores, todo |-> bowlers], bwd, batters)

\* analyze_head_to_head(team1_players, team2_players)
analyze_head_to_head(scores, bd, bwd, team1_players, team2_players) ==
    h2h_bowlers(h2h_batters(scores, bd, team1_players, team2_players),
                bwd, team2_players, team1_players)

\* venue_df[venue_df['venue'].str.contains(venue, case=False)]: the matching rows
venue_rows(table, venue) ==
    {i \in 1..Len(table.rows) : Contains(lower(table.rows[i].venue), lower(venue))}

\* lines 148-159, in hundredths; a table that does not parse raises, and is skipped
venue_batting(rec, venue) ==
    LET venue_data == Get(rec, "venue", EmptyDict)
    IN  IF "Batting" \in DOMAIN venue_data /\ venue_data["Batting"].ok
           /\ venue_rows(venue_data["Batting"], venue) # {}
        THEN LET row == venue_data["Batting"].rows[SetMin(venue_rows(venue_data["Batting"], venue))]
             IN  row.Average * 5 + row.StrikeRate
        ELSE 0

\* lines 161-172, in hundredths
venue_bowling(rec, venue) ==
    LET venue_data == Get(rec, "venue", EmptyDict)
    IN  IF "Bowling" \in DOMAIN venue_data /\ venue_data["Bowling"].ok
           /\ venue_rows(venue_data["Bowling"], venue) # {}
        THEN LET row == venue_data["Bowling"].rows[SetMin(venue_rows(venue_data["Bowling"], venue))]
             IN  row.Wickets * 300 + economy_points(row.Economy) * 100
        ELSE 0

\* the loop of analyze_venue_performance, lines 146-172
RECURSIVE venue_loop(_, _, _, _)
venue_loop(st, bd, bwd, venue) ==
    IF st.todo = <<>> THEN st.scores
    ELSE LET player == Head(st.todo)
             s1 == IF player \in DOMAIN bd
                   THEN AddScore(st.scores, player, venue_batting(bd[player], venue))
                   ELSE st.scores
             s2 == IF player \in DOMAIN bwd
                   THEN AddScore(s1, player, venue_bowling(bwd[player], venue))
                   ELSE s1
         IN  venue_loop([scores |-> s2, todo |-> Tail(st.todo)], bd, bwd, venue)

\* analyze_venue_performance(venue, players)
analyze_venue_performance(scores, bd, bwd, venue, players) ==
    venue_loop([scores |-> scores, todo |-> players], bd, bwd, venue)

\* pd.StringIO (lines 187 and 207): pandas has no such attribute, so the read raises
\* AttributeError inside the try and the except passes
pd_has_StringIO == FALSE

RECURSIVE SumOf(_, _)
SumOf(rows, field) == IF rows = <<>> THEN 0 ELSE Head(rows)[field] + SumOf(Tail(rows), field)

\* lines 184-198: what the "Batting Match-wise" tables add, in hundredths
RECURSIVE form_batting(_)
form_batting(recent_form) ==
    IF recent_form = <<>> THEN 0
    ELSE LET form_data == Head(recent_form)
         IN  (IF form_data.label = "Batting Match-wise" /\ pd_has_StringIO
                 /\ form_data.rows # <<>>
              THEN (SumOf(form_data.rows, "Runs") * 10) \div Len(form_data.rows)
                   + SumOf(form_data.rows, "StrikeRate") \div Len(form_data.rows)
              ELSE 0)
             + form_batting(Tail(recent_form))

\* lines 204-218: what the "Bowling Match-wise" tables add, in hundredths
RECURSIVE form_bowling(_)
form_bowling(recent_form) ==
    IF recent_form = <<>> THEN 0
    ELSE LET form_data == Head(recent_form)
         IN  (IF form_data.label = "Bowling Match-wise" /\ pd_has_StringIO
                 /\ form_data.rows # <<>>
              THEN (SumOf(form_data.rows, "Wickets") * 500) \div Len(form_data.rows)
                   + economy_points(SumOf(form_data.rows, "Economy") \div Len(form_data.rows)) * 100
              ELSE 0)
             + form_bowling(Tail(recent_form))

\* the loop of analyze_recent_form, lines 176-218
RECURSIVE form_loop(_, _, _)
form_loop(st, bd, bwd) ==
    IF st.todo = <<>> THEN st.scores
    ELSE LET player == Head(st.todo)
             s0 == SetDefaultZero(st.scores, player)
             s1 == IF player \in DOMAIN bd /\ "recent_form" \in DOMAIN bd[player]
                   THEN AddScore(s0, player, form_batting(bd[player]["recent_form"]))
                   ELSE s0
             s2 == IF player \in DOMAIN bwd /\ "recent_form" \in DOMAIN bwd[player]
                   THEN AddScore(s1, player, form_bowling(bwd[player]["recent_form"]))
                   ELSE s1
         IN  form_loop([scores |-> s2, todo |-> Tail(st.todo)], bd, bwd)

\* analyze_recent_form(players)
analyze_recent_form(scores, bd, bwd, players) ==
    form_loop([scores |-> scores, todo |-> players], bd, bwd)

-----------------------------------------------------------------------------
(* The registry: get_player_info_from_csv and set_player_roles *)

\* team_df[team_df['Name'].str.strip().str.lower() == player_name.strip().lower()]
csv_rows(rows, player_name) ==
    {r \in 1..Len(rows) : lower(strip(rows[r].Name)) = lower(strip(player_name))}

\* get_player_info_from_csv: <<>> for None, else <<info>>, from the first squad with a row
get_player_info_from_csv(td, player_name) ==
    LET hits == {t \in 1..Len(td) : csv_rows(td[t][2], player_name) # {}}
    IN  IF hits = {} THEN <<>>
        ELSE LET t == SetMin(hits)
                 row == td[t][2][SetMin(csv_rows(td[t][2], player_name))]
             IN  <<[role |-> row.Role, credits |-> row.Credits,
                    foreign |-> row.Foreign, team |-> td[t][1]]>>

\* p.split('(')[0].strip()
name_of(entry) == strip(split_paren(entry)[1])

\* the body of the loop of set_player_roles, lines 63-88, on the registry reg;
\* reg.raised tells that line 79 raised KeyError
set_player_role(reg, td, player_info) ==
    LET parts == split_paren(strip(player_info))
        player_name == strip(parts[1])
        role_part == IF Len(parts) >= 2 THEN strip(parts[2]) ELSE <<>>
        roles1 == IF Len(parts) >= 2
                  THEN (IF endswith_paren(role_part)
                        THEN Put(reg.roles, player_name,
                                 strip(SubSeq(role_part, 1, Len(role_part) - 1)))
                        ELSE reg.roles)
                  ELSE Put(reg.roles, player_name, T_Unknown)
        csv_info == get_player_info_from_csv(td, player_name)
    IN  IF csv_info # <<>>
        THEN LET teams1 == Put(reg.teams, player_name, csv_info[1].team)
             IN  IF player_name \notin DOMAIN roles1
                 THEN [reg EXCEPT !.roles = roles1, !.teams = teams1, !.raised = TRUE]
                 ELSE [roles |-> IF roles1[player_name] = T_Unknown
                                 THEN Put(roles1, player_name, csv_info[1].role)
                                 ELSE roles1,
                       credits |-> Put(reg.credits, player_name, csv_info[1].credits),
                       foreign |-> Put(reg.foreign, player_name, csv_info[1].foreign),
                       teams |-> teams1,
                       raised |-> FALSE]
        ELSE [roles |-> roles1,
              credits |-> Put(reg.credits, player_name, DEFAULT_CREDITS),
              foreign |-> Put(reg.foreign, player_name, FALSE),
              teams |-> reg.teams,
              raised |-> FALSE]

\* set_player_roles(players_with_roles): the loop, left at the first KeyError
RECURSIVE set_player_roles(_, _, _)
set_player_roles(reg, td, players_with_roles) ==
    IF players_with_roles = <<>> \/ reg.raised THEN reg
    ELSE set_player_roles(set_player_role(reg, td, Head(players_with_roles)),
                          td, Tail(players_with_roles))

Names(entries) == [i \in 1..Len(entries) |-> name_of(entries[i])]

\* lines 358-371 past the reset: the four analyses, applied to the score table
analyses(table, bd, bwd, m) ==
    LET team1_players == Names(m.team1_playing11)
        team2_players == Names(m.team2_playing11)
        all_players == Names(m.team1_playing11 \o m.team2_playing11)
        s1 == analyze_head_to_head(table, bd, bwd, team1_players, team2_players)
        s2 == analyze_head_to_head(s1, bd, bwd, team2_players, team1_players)
        s3 == analyze_venue_performance(s2, bd, bwd, m.venue, all_players)
    IN  analyze_recent_form(s3, bd, bwd, all_players)

\* a faulty variant: the score table is not reset, the analyses add to what the last run left
match_scores_KeepTable(bd, bwd, m) == analyses(player_scores, bd, bwd, m)

\* lines 364-371: self.player_scores = {}, then the analyses
match_scores(bd, bwd, m) == analyses(<<>>, bd, bwd, m)

-----------------------------------------------------------------------------
(* The data files and the matches the model draws from *)

Rohit == <<"R", "o", "h", "i", "t">>
Boult == <<"B", "o", "u", "l", "t">>
Tilak == <<"T", "i", "l", "a", "k">>
Naman == <<"N", "a", "m", "a", "n">>
KL_Rahul == <<"K", "L", " ", "R", "a", "h", "u", "l">>
Axar == <<"A", "x", "a", "r">>
Starc == <<"S", "t", "a", "r", "c">>
Wankhede == <<"W", "a", "n", "k", "h", "e", "d", "e">>
WankhedeStadium == <<"w", "a", "n", "k", "h", "e", "d", "e", " ", "s", "t", "a", "d", "i", "u", "m">>
Kotla == <<"K", "o", "t", "l", "a">>
T_WK_Batter == <<"W", "K", "-", "B", "a", "t", "t", "e", "r">>
T_wk_batter == <<"w", "k", "-", "b", "a", "t", "t", "e", "r">>
T_bowler == <<"b", "o", "w", "l", "e", "r">>

Row(name, role, credits, foreign) ==
    [Name |-> name, Role |-> role, Credits |-> credits, Foreign |-> foreign]

\* the squad files of the Teams folder, in the order os.listdir gives them
Squads ==
    << <<"Mumbai Indians",
         << Row(Rohit, T_Batter, 10, FALSE), Row(Boult, T_Bowler, 9, TRUE),
            Row(Tilak, T_Batter, 8, FALSE) >> >>,
       <<"Delhi Capitals",
         << Row(<<" ">> \o KL_Rahul \o <<" ">>, T_WK_Batter, 10, FALSE),
            Row(Axar, T_All_Rounder, 9, FALSE), Row(Starc, T_Bowler, 9, TRUE) >> >> >>

Table(rows) == [ok |-> TRUE, rows |-> rows]
BadTable == [ok |-> FALSE, rows |-> <<>>]

\* a batter cache with head-to-head entries of every shape the code tells apart
RichBatterData ==
    (Rohit :>
        (("head_to_head" :>
            ((Axar :> Rec(("Strike Rate" :> Num(150)) @@ ("Average" :> Num(30))
                          @@ ("Boundary %" :> Num(20)) @@ ("Dismissals" :> Num(1))))
             @@ (KL_Rahul :> Rec("Message" :> Str(FALSE, 0)))
             @@ (Starc :> List(<< Rec(("Strike Rate" :> Num(100)) @@ ("Average" :> Num(10))),
                                  Rec(("Strike Rate" :> Num(200)) @@ ("Average" :> Num(50))) >>))))
         @@ ("venue" :>
            ("Batting" :> Table(<< [venue |-> Kotla, Average |-> 20, StrikeRate |-> 110],
                                   [venue |-> WankhedeStadium, Average |-> 40, StrikeRate |-> 140] >>)))
         @@ ("recent_form" :>
            << [label |-> "Batting Match-wise",
                rows |-> << [Runs |-> 40, StrikeRate |-> 150], [Runs |-> 20, StrikeRate |-> 110] >>] >>)))
    @@ (KL_Rahul :>
        (("head_to_head" :>
            ((Boult :> Rec(("Strike Rate" :> Str(FALSE, 0)) @@ ("Average" :> Num(25))))
             @@ (Rohit :> List(<<>>))))
         @@ ("venue" :> ("Batting" :> BadTable))))
    @@ (Axar :> ("head_to_head" :> EmptyDict))
    @@ (Tilak :> EmptyDict)

RichBowlerData ==
    (Boult :>
        (("head_to_head" :>
            ((KL_Rahul :> Rec(("Dismissals" :> Str(TRUE, 2)) @@ ("Econ" :> Num(8))))
             @@ (Axar :> List(<< Rec(("Dismissals" :> Num(3)) @@ ("Econ" :> Num(6))) >>))))
         @@ ("venue" :>
            ("Bowling" :> Table(<< [venue |-> WankhedeStadium, Wickets |-> 2, Economy |-> 7] >>)))))
    @@ (Axar :>
        (("head_to_head" :>
            ((Rohit :> Rec("Dismissals" :> Num(1)))
             @@ (Boult :> Rec(("Dismissals" :> Str(FALSE, 0)) @@ ("Econ" :> Num(5))))))
         @@ ("recent_form" :>
            << [label |-> "Bowling Match-wise",
                rows |-> << [Wickets |-> 2, Economy |-> 8] >>] >>)))
    @@ (Starc :> ("head_to_head" :> (Rohit :> Rec("Message" :> Str(FALSE, 0)))))

\* the <<batter cache, bowler cache>> pairs a behaviour may start from
DataFiles == { <<RichBatterData, RichBowlerData>> }

Entry(name, role) == name \o <<"(">> \o role \o <<")">>

\* playing elevens: well-formed "Name(Role)" and bare "Name" entries, entries padded
\* with blanks, a lower-case spelling of a squad name, and an unclosed "Name(Role"
Roster1a == << Entry(Rohit, T_Batter), Entry(Boult, T_Bowler), Tilak >>
Roster1b ==
    << Entry(Rohit, T_WK), <<" ">> \o Boult \o <<" ", "(">> \o T_WK \o <<")", " ">>,
       Entry(Tilak, T_WK) >>
Roster1c == << Rohit \o <<"(">> \o T_WK, Naman >>
Roster2a == << Entry(KL_Rahul, T_WK_Batter), Entry(Axar, T_All_Rounder) >>
Roster2b == << lower(KL_Rahul), Entry(Axar, T_bowler), Starc >>

Match(r1, r2, v) == [team1_playing11 |-> r1, team2_playing11 |-> r2, venue |-> v]

\* the matches a behaviour may predict
Matches ==
    { Match(Roster1a, Roster2a, Wankhede), Match(Roster1a, Roster2b, Wankhede),
      Match(Roster1b, Roster2a, Wankhede), Match(Roster1c, Roster2b, Wankhede) }

NoArgs == [team1_playing11 |-> <<>>, team2_playing11 |-> <<>>, venue |-> <<>>]
NoResult == [none |-> TRUE]
Raised(what) == [raised |-> what]

-----------------------------------------------------------------------------
(* __init__ and predict_dream11 *)

\* __init__, lines 10-30: the data files are read again, everything else starts empty
Construct ==
    /\ pc = "idle"
    /\ ~fresh
    /\ player_scores' = <<>>
    /\ selected_team' = <<>>
    /\ player_roles' = EmptyDict
    /\ player_credits' = EmptyDict
    /\ player_is_foreign' = EmptyDict
    /\ player_teams' = EmptyDict
    /\ team_counts' = EmptyDict
    /\ role_team_counts' = EmptyDict
    /\ fresh' = TRUE
    /\ UNCHANGED <<batter_data, bowler_data, teams_data, pc, caller, args, sorted_players,
                   selected_players, total_credits, foreign_count, idx, result,
                   examined, log>>

\* predict_dream11 up to its call of select_dream11_team, lines 349-371
PredictCall(m) ==
    /\ pc = "idle"
    /\ Len(log) < MaxRuns
    /\ LET playing11 == m.team1_playing11 \o m.team2_playing11
           reg == set_player_roles([roles |-> player_roles, credits |-> player_credits,
                                    foreign |-> player_is_foreign, teams |-> player_teams,
                                    raised |-> FALSE], teams_data, playing11)
       IN  /\ player_roles' = reg.roles
           /\ player_credits' = reg.credits
           /\ player_is_foreign' = reg.foreign
           /\ player_teams' = reg.teams
           /\ args' = m
           /\ caller' = "predict"
           /\ IF reg.raised
              THEN /\ pc' = "idle"
                   /\ result' = Raised("KeyError")
                   /\ log' = Append(log, [args |-> m, fresh |-> fresh,
                                          scores |-> player_scores, result |-> result'])
                   /\ fresh' = FALSE
                   /\ UNCHANGED player_scores
              ELSE /\ pc' = "select"
                   /\ player_scores' = match_scores(batter_data, bowler_data, m)
                   /\ UNCHANGED <<result, log, fresh>>
    /\ UNCHANGED <<batter_data, bowler_data, teams_data, selected_team, team_counts,
                   role_team_counts, sorted_players, selected_players, total_credits,
                   foreign_count, idx, examined>>

\* a predictor right after its construction
Init ==
    /\ \E d \in DataFiles : batter_data = d[1] /\ bowler_data = d[2]
    /\ teams_data = Squads
    /\ player_scores = <<>>
    /\ selected_team = <<>>
    /\ player_roles = EmptyDict
    /\ player_credits = EmptyDict
    /\ player_is_foreign = EmptyDict
    /\ player_teams = EmptyDict
    /\ team_counts = EmptyDict
    /\ role_team_counts = EmptyDict
    /\ pc = "idle"
    /\ caller = "predict"
    /\ args = NoArgs
    /\ sorted_players = <<>>
    /\ selected_players = <<>>
    /\ total_credits = 0
    /\ foreign_count = 0
    /\ idx = 0
    /\ result = NoResult
    /\ examined = <<>>
    /\ fresh = TRUE
    /\ log = <<>>

Next ==
    \/ Construct
    \/ \E m \in Matches : PredictCall(m)
    \/ SelectStart
    \/ SelectStep
    \/ SelectReturn

Spec == Init /\ [][Next]_vars

-----------------------------------------------------------------------------
(* select_dream11_team entered on its own: the score table and the registry *)
(* are drawn from families that reach every cap of the selection            *)

CandLetters == <<"a","b","c","d","e","f","g","h","i","j","k","l","m","n","o","p","q","r">>
CandName(i) == <<"P", CandLetters[i]>>

ScorePatterns == {"tied", "rising", "falling", "groups", "negative"}
ScoreOf(p, i) ==
    CASE p = "tied" -> 0
      [] p = "rising" -> i * 10
      [] p = "falling" -> 1000 - i * 10
      [] p = "groups" -> (i % 3) * 100
      [] p = "negative" -> 0 - (i % 2) * 50

\* "absent": the player has no entry, so the default applies
CreditPatterns == {"absent", "nine", "ten", "mixed", "heavy", "sixty", "over", "free"}
HasCredits(p, i) == p # "absent"
CreditsOf(p, i) ==
    CASE p = "nine" -> 9
      [] p = "ten" -> 10
      [] p = "mixed" -> IF i % 3 = 0 THEN 12 ELSE 8
      [] p = "heavy" -> IF i % 4 = 1 THEN 45 ELSE 7
      [] p = "sixty" -> 60
      [] p = "over" -> 101
      [] p = "free" -> 0

ForeignPatterns == {"absent", "all", "odd", "most"}
HasForeign(p, i) == p # "absent"
ForeignOf(p, i) ==
    CASE p = "all" -> TRUE
      [] p = "odd" -> i % 2 = 1
      [] p = "most" -> i % 3 # 0

TeamPatterns == {"absent", "one", "two", "three", "block"}
HasTeam(p, i) == ~(p = "absent" \/ (p = "three" /\ i % 3 = 0))
TeamOf(p, i) ==
    CASE p = "one" -> "Mumbai Indians"
      [] p = "two" -> IF i % 2 = 1 THEN "Mumbai Indians" ELSE "Delhi Capitals"
      [] p = "three" -> IF i % 3 = 1 THEN "Mumbai Indians" ELSE "Delhi Capitals"
      [] p = "block" -> IF i <= 7 THEN "Mumbai Indians" ELSE "Delhi Capitals"

RolePatterns == {"absent", "cycle", "keepers", "case", "spellings"}
HasRole(p, i) == p # "absent"
RoleOf(p, i) ==
    CASE p = "cycle" -> <<T_WK_Batter, T_Batter, T_All_Rounder, T_Bowler>>[(i % 4) + 1]
      [] p = "keepers" -> T_WK_Batter
      [] p = "case" -> <<T_bowler, T_Bowler>>[(i % 2) + 1]
      [] p = "spellings" ->
            <<T_Batsman, T_AllSpRounder, T_wk_batter, T_Allrounder, T_Unknown>>[(i % 5) + 1]

\* the dict that gives candidate i the value val[i], for every i val is defined on
DictOf(val) ==
    [k \in {CandName(i) : i \in DOMAIN val} |->
        val[CHOOSE i \in DOMAIN val : CandName(i) = k]]

\* counters a previous selection left behind
StaleTeamCounts == ("Mumbai Indians" :> MAX_TEAM_PLAYERS) @@ (UnknownTeam :> 2)
StaleRoleTeamCounts ==
    ("Mumbai Indians" :> (("WK" :> 2) @@ ("BAT" :> 3) @@ ("BOWL" :> 1)))
    @@ (UnknownTeam :> ("BAT" :> 2))

InitSelect ==
    \E n \in {0, 1, NumCandidates}, sp \in ScorePatterns, cp \in CreditPatterns,
       fp \in ForeignPatterns, tp \in TeamPatterns, rp \in RolePatterns, stale \in BOOLEAN :
        /\ batter_data = [k \in {CandName(i) : i \in {j \in 1..n : j % 3 # 1}} |-> EmptyDict]
        /\ bowler_data = [k \in {CandName(i) : i \in {j \in 1..n : j % 2 = 0}} |-> EmptyDict]
        /\ teams_data = Squads
        /\ player_scores = [i \in 1..n |-> <<CandName(i), ScoreOf(sp, i)>>]
        /\ selected_team = <<>>
        /\ player_roles = DictOf([i \in {j \in 1..n : HasRole(rp, j)} |-> RoleOf(rp, i)])
        /\ player_credits = DictOf([i \in {j \in 1..n : HasCredits(cp, j)} |-> CreditsOf(cp, i)])
        /\ player_is_foreign = DictOf([i \in {j \in 1..n : HasForeign(fp, j)} |-> ForeignOf(fp, i)])
        /\ player_teams = DictOf([i \in {j \in 1..n : HasTeam(tp, j)} |-> TeamOf(tp, i)])
        /\ team_counts = IF stale THEN StaleTeamCounts ELSE EmptyDict
        /\ role_team_counts = IF stale THEN StaleRoleTeamCounts ELSE EmptyDict
        /\ pc = "select"
        /\ caller = "direct"
        /\ args = NoArgs
        /\ sorted_players = <<>>
        /\ selected_players = <<>>
        /\ total_credits = 0
        /\ foreign_count = 0
        /\ idx = 0
        /\ result = NoResult
        /\ examined = <<>>
        /\ fresh = TRUE
        /\ log = <<>>

NextSelect == SelectStart \/ SelectStep \/ SelectReturn

SpecSelect == InitSelect /\ [][NextSelect]_vars

-----------------------------------------------------------------------------
(* predict_dream11 on matches large enough to fill a team of eleven *)

Pa == CandName(1)
Pb == CandName(2)
Pc == CandName(3)
Pd == CandName(4)
Pe == CandName(5)
Pf == CandName(6)
Pg == CandName(7)

\* the squad players and players no squad file lists, many of them without history
BigRoster1 ==
    << Entry(Rohit, T_Batter), Entry(Boult, T_Bowler), Tilak,
       Entry(Pa, T_WK), Entry(Pb, T_WK), Entry(Pc, T_WK) >>

BigRoster2 ==
    << Entry(KL_Rahul, T_WK_Batter), Entry(Axar, T_All_Rounder), Starc,
       Entry(Pd, T_Batter), Entry(Pe, T_Bowler), Entry(Pf, T_All_Rounder),
       Entry(Pg, T_Batter) >>

BigMatches ==
    { Match(BigRoster1, BigRoster2, Wankhede), Match(BigRoster2, BigRoster1, Wankhede),
      Match(BigRoster1, BigRoster2, Kotla) }

NextBig ==
    \/ Construct
    \/ \E m \in BigMatches : PredictCall(m)
    \/ SelectStart
    \/ SelectStep
    \/ SelectReturn

SpecBig == Init /\ [][NextBig]_vars

-----------------------------------------------------------------------------
(* categorize_players and ensure_minimum_requirements, called on a predictor *)
(* whose select_dream11_team has run                                         *)

\* categorize_players(sorted_players): the four lists, each in the order of the argument
categorize_players(players, roles, bd, bwd) ==
    LET pick(c) ==
            SelectSeq(players,
                      LAMBDA x : categorize_one(Get(roles, x[1], T_Unknown), x[1], bd, bwd) = c)
    IN  [batsmen |-> pick("batsmen"), bowlers |-> pick("bowlers"),
         all_rounders |-> pick("all_rounders"), wicket_keepers |-> pick("wicket_keepers")]

\* a caller sorts the score table and has it categorized
CategorizePlayers ==
    /\ pc = "idle"
    /\ caller = "direct"
    /\ args' = [sorted_players |-> SortedDesc(player_scores)]
    /\ result' = categorize_players(args'.sorted_players, player_roles,
                                    batter_data, bowler_data)
    /\ pc' = "categorized"
    /\ UNCHANGED <<batter_data, bowler_data, teams_data, player_scores, selected_team,
                   player_roles, player_credits, player_is_foreign, player_teams,
                   team_counts, role_team_counts, caller, sorted_players,
                   selected_players, total_credits, foreign_count, idx, examined,
                   fresh, log>>

\* the locals of ensure_minimum_requirements, lines 267-268
PREPASS_MAX_CREDITS == 100
PREPASS_MAX_FOREIGN == 4

\* line 271: the order the categories are served in
CategoryOrder == <<"wicket_keepers", "batsmen", "all_rounders", "bowlers">>

\* the totals a caller may hand to ensure_minimum_requirements
PrePassTotals == { <<0, 0>>, <<90, 3>>, <<95, 4>> }

\* ensure_minimum_requirements up to its loop, lines 260-268
EnsureStart(total, fcount) ==
    /\ pc = "categorized"
    /\ args' = [categorized_players |-> result, total_credits |-> total,
                foreign_count |-> fcount]
    /\ selected_players' = <<>>
    /\ total_credits' = total
    /\ foreign_count' = fcount
    /\ idx' = 0
    /\ pc' = "ensure"
    /\ UNCHANGED <<batter_data, bowler_data, teams_data, player_scores, selected_team,
                   player_roles, player_credits, player_is_foreign, player_teams,
                   team_counts, role_team_counts, caller, sorted_players, result,
                   examined, fresh, log>>

\* lines 274-281: the places of `category` whose player is not reserved yet and
\* passes the test of line 281
Reservable(category, reserved, total, fcount) ==
    {i \in 1..Len(category) :
        /\ \A j \in 1..Len(reserved) : reserved[j][1] # category[i][1]
        /\ total + Get(player_credits, category[i][1], DEFAULT_CREDITS) <= PREPASS_MAX_CREDITS
        /\ \/ ~Get(player_is_foreign, category[i][1], FALSE)
           \/ fcount < PREPASS_MAX_FOREIGN}

\* one category of the outer loop, lines 271-286: the first reservable player of the
\* category is reserved, and the inner loop breaks
EnsureStep ==
    /\ pc = "ensure"
    /\ LET category == args.categorized_players[CategoryOrder[idx + 1]]
           ok == Reservable(category, selected_players, total_credits, foreign_count)
       IN  IF ok = {}
           THEN UNCHANGED <<selected_players, total_credits, foreign_count>>
           ELSE LET player == category[SetMin(ok)][1]
                IN  /\ selected_players' = Append(selected_players, category[SetMin(ok)])
                    /\ total_credits' =
                          total_credits + Get(player_credits, player, DEFAULT_CREDITS)
                    /\ foreign_count' = IF Get(player_is_foreign, player, FALSE)
                                        THEN foreign_count + 1 ELSE foreign_count
    /\ idx' = idx + 1
    /\ pc' = IF idx + 1 = Len(CategoryOrder) THEN "ensured" ELSE "ensure"
    /\ UNCHANGED <<batter_data, bowler_data, teams_data, player_scores, selected_team,
                   player_roles, player_credits, player_is_foreign, player_teams,
                   team_counts, role_team_counts, caller, args, sorted_players, result,
                   examined, fresh, log>>

\* line 288: return selected_players, total_credits, foreign_count
EnsureReturn ==
    /\ pc = "ensured"
    /\ result' = [reserved |-> selected_players, total_credits |-> total_credits,
                  foreign_count |-> foreign_count]
    /\ pc' = "done"
    /\ UNCHANGED <<batter_data, bowler_data, teams_data, player_scores, selected_team,
                   player_roles, player_credits, player_is_foreign, player_teams,
                   team_counts, role_team_counts, caller, args, sorted_players,
                   selected_players, total_credits, foreign_count, idx, examined,
                   fresh, log>>

NextPrePass ==
    \/ SelectStart
    \/ SelectStep
    \/ SelectReturn
    \/ CategorizePlayers
    \/ \E t \in PrePassTotals : EnsureStart(t[1], t[2])
    \/ EnsureStep
    \/ EnsureReturn

SpecPrePass == InitSelect /\ [][NextPrePass]_vars

-----------------------------------------------------------------------------
(* What the claims speak of, computed from the team and the registry *)

\* a call has returned a team
Returned == pc = "idle" /\ "team" \in DOMAIN result

TeamNames(team) == {team[i][1] : i \in 1..Len(team)}
CreditsOfPlayer(p) == Get(player_credits, p, 7)
IsForeignPlayer(p) == Get(player_is_foreign, p, FALSE)
OriginTeam(p) == Get(player_teams, p, "Unknown")
RoleText(p) == Get(player_roles, p, T_Unknown)

RECURSIVE TeamCredits(_)
TeamCredits(team) ==
    IF team = <<>> THEN 0 ELSE CreditsOfPlayer(Head(team)[1]) + TeamCredits(Tail(team))

TeamForeign(team) == Cardinality({i \in 1..Len(team) : IsForeignPlayer(team[i][1])})
TeamFrom(team, T) == {i \in 1..Len(team) : OriginTeam(team[i][1]) = T}
OriginTeams(team) == {OriginTeam(team[i][1]) : i \in 1..Len(team)}

NoRepeats(seq) == \A i, j \in 1..Len(seq) : i # j => seq[i] # seq[j]
IsPrefix(a, b) == Len(a) <= Len(b) /\ SubSeq(b, 1, Len(a)) = a

WithinCaps(team) ==
    /\ TeamCredits(team) <= 100
    /\ TeamForeign(team) <= 4
    /\ Len(team) <= 11
    /\ \A T \in OriginTeams(team) : Cardinality(TeamFrom(team, T)) <= 6

NonNegativeCredits == \A p \in DOMAIN player_credits : player_credits[p] >= 0

\* C1: with non-negative credits the team is within the credit budget of 100, the
\* foreign cap of 4, the size of 11 and the cap of 6 per origin team ("Unknown"
\* included), after every step of the selection pass and in what the call returns
C1_TeamWithinCaps ==
    NonNegativeCredits =>
        /\ WithinCaps(selected_players)
        /\ Returned => WithinCaps(result.team) /\ WithinCaps(selected_team)

\* C1's case: a full team that spends the whole budget of 100, returned after the
\* pass left candidates out
C1_Witness ==
    /\ Returned
    /\ Len(result.team) = 11
    /\ TeamCredits(result.team) = 100
    /\ Len(examined) > 11

\* the Role Classifier as section 4.1 of the specification words it: the role text
\* is matched without regard to letter case, and a text with no token falls back
\* on the player's history
SpecClassify(role_text, player) ==
    LET r == lower(role_text)
        has_batting == player \in DOMAIN batter_data
        has_bowling == player \in DOMAIN bowler_data
    IN  IF Contains(r, lower(T_WK)) THEN "WICKETKEEPER"
        ELSE IF Contains(r, lower(T_Bowler)) THEN "BOWLER"
        ELSE IF \/ Contains(r, lower(T_All_Rounder)) \/ Contains(r, lower(T_Allrounder))
                \/ Contains(r, lower(T_AllSpRounder))
             THEN "ALL_ROUNDER"
        ELSE IF Contains(r, lower(T_Batter)) \/ Contains(r, lower(T_Batsman)) THEN "BATTER"
        ELSE IF has_batting /\ ~has_bowling
             THEN (IF player \in WK_NAMES THEN "WICKETKEEPER" ELSE "BATTER")
        ELSE IF has_bowling /\ ~has_batting THEN "BOWLER"
        ELSE IF has_batting /\ has_bowling THEN "ALL_ROUNDER"
        ELSE "BATTER"

SpecCap == [WICKETKEEPER |-> 2, BATTER |-> 3, ALL_ROUNDER |-> 3, BOWLER |-> 3]

\* C2: in a returned team, for every origin team T and role category R, at most
\* cap(R) of the selected players of T have the category R that the Role Classifier
\* of section 4.1 gives their role text
C2_RoleCapsBySpecClassifier ==
    Returned =>
        \A T \in OriginTeams(result.team), R \in DOMAIN SpecCap :
            Cardinality({i \in TeamFrom(result.team, T) :
                SpecClassify(RoleText(result.team[i][1]), result.team[i][1]) = R}) <= SpecCap[R]

\* a roster entry of the form "Name(Role)" or "Name", blanks around it or not
WellFormedEntry(entry) ==
    LET parts == split_paren(strip(entry))
    IN  Len(parts) = 1 \/ endswith_paren(strip(parts[2]))

Entries(m) == m.team1_playing11 \o m.team2_playing11
WellFormedMatch(m) == \A i \in 1..Len(Entries(m)) : WellFormedEntry(Entries(m)[i])
ListedPlayers(m) == {name_of(Entries(m)[i]) : i \in 1..Len(Entries(m))}

\* C3: a predict_dream11 call that follows, on the same instance, a call with the same
\* arguments ends as that call did: the same score table, the same team in the same
\* order, the same captain and vice-captain, the same total_credits and foreign_count
C3_SameArgsSameResult ==
    \A i \in 1..(Len(log) - 1) :
        (log[i + 1].args = log[i].args /\ ~log[i + 1].fresh) =>
            /\ log[i + 1].scores = log[i].scores
            /\ log[i + 1].result = log[i].result

\* C3's case: the same match ran twice in a row on one instance, and its selection
\* filled a role count to its cap, leaving a candidate out
C3_Witness ==
    \E i \in 1..(Len(log) - 1) :
        /\ log[i + 1].args = log[i].args
        /\ ~log[i + 1].fresh
        /\ "team" \in DOMAIN log[i + 1].result
        /\ Len(log[i + 1].result.team) >= 2
        /\ Len(log[i + 1].result.team) < Len(log[i + 1].scores)

\* C4: a match of well-formed roster entries ends the same way on an instance that
\* has run other matches as on a newly constructed one (scores, team, captain,
\* vice-captain, total_credits, foreign_count), and only its own players are scored
C4_NoCarryOver ==
    \A j, k \in 1..Len(log) :
        (/\ log[j].args = log[k].args
         /\ WellFormedMatch(log[j].args)
         /\ ~log[j].fresh
         /\ log[k].fresh) =>
            /\ log[j].scores = log[k].scores
            /\ log[j].result = log[k].result
            /\ "team" \in DOMAIN log[j].result
            /\ TeamNames(log[j].scores) = ListedPlayers(log[j].args)
            /\ TeamNames(log[j].result.team) \subseteq ListedPlayers(log[j].args)

\* C4's case: match B ran right after a different match A that had players B does not
\* list, and B also ran on a new instance
C4_Witness ==
    \E j, k \in 1..Len(log) :
        /\ j > 1
        /\ log[j].args = log[k].args
        /\ WellFormedMatch(log[j].args)
        /\ ~log[j].fresh
        /\ log[k].fresh
        /\ "team" \in DOMAIN log[j - 1].result
        /\ TeamNames(log[j - 1].result.team) \ ListedPlayers(log[j].args) # {}
        /\ log[j - 1].args.team1_playing11 # log[j].args.team1_playing11
        /\ Len(log[j].result.team) >= 2

\* C5: a returned team of two or more has its first player as captain and its second
\* as vice-captain, and no selected player scores more than the captain; a team of
\* fewer than two has neither
C5_Captaincy ==
    Returned =>
        IF Len(result.team) >= 2
        THEN /\ result.captain = <<result.team[1][1]>>
             /\ result.vice_captain = <<result.team[2][1]>>
             /\ \A i \in 1..Len(result.team) : result.team[1][2] >= result.team[i][2]
        ELSE result.captain = <<>> /\ result.vice_captain = <<>>

\* C5's case: a team whose captain outscores its last player and was not the first
\* player of the score table
C5_Witness ==
    /\ Returned
    /\ Len(result.team) >= 2
    /\ result.team[1][2] > result.team[Len(result.team)][2]
    /\ player_scores[1][1] # result.team[1][1]
    /\ result.captain = <<result.team[1][1]>>

C6_Safety ==
    /\ NoRepeats(examined)
    /\ Len(selected_players) <= 11
    /\ pc \in {"loop", "assign", "idle"} => IsPrefix(examined, Keys(sorted_players))
    /\ Returned =>
        /\ result.team = selected_players
        /\ result.total_credits = total_credits
        /\ result.foreign_count = foreign_count
        /\ IF Len(result.team) = 11
           THEN examined[Len(examined)] = result.team[11][1]
           ELSE /\ examined = Keys(sorted_players)
                /\ TeamNames(player_scores) = {examined[i] : i \in 1..Len(examined)}

\* C6: the selection pass terminates and returns a team: until it has returned a
\* step is possible, and the loop examines no candidate twice, so it takes at most
\* one step per candidate; it stops either right after the 11th player is accepted
\* or when every candidate has been examined once, and a team of fewer than 11 (an
\* empty one too) is returned with its totals
C6_PassTerminates ==
    /\ C6_Safety
    /\ Returned \/ ENABLED NextSelect
    /\ Len(examined) <= Len(player_scores)
    /\ pc = "loop" => Len(examined) = idx /\ idx < Len(sorted_players)

\* C6's case: the pass has examined every candidate and returns fewer than 11 players
C6_Witness ==
    /\ Returned
    /\ Len(result.team) < 11
    /\ Len(result.team) > 0
    /\ Len(examined) = NumCandidates

\* the candidate the loop is about to examine fails one of the four checks
NextFailsACheck ==
    LET p == sorted_players[idx + 1][1]
    IN  \/ Count(team_counts, OriginTeam(p)) >= 6
        \/ RoleCount(role_team_counts, OriginTeam(p), simplify_role(player_roles, p))
              >= MAX_ROLE_PER_TEAM[simplify_role(player_roles, p)]
        \/ total_credits + CreditsOfPlayer(p) > 100
        \/ IsForeignPlayer(p) /\ foreign_count >= 4

\* the candidates examined and left out
Rejected == {examined[i] : i \in 1..Len(examined)} \ TeamNames(selected_players)

\* the names of a list in the order of their first occurrence
FirstSeen(names) ==
    LET keep == {i \in 1..Len(names) : \A j \in 1..(i - 1) : names[j] # names[i]}
    IN  [k \in 1..Cardinality(keep) |->
            names[CHOOSE i \in keep : Cardinality({j \in keep : j < i}) = k - 1]]

PosIn(seq, x) == CHOOSE i \in 1..Len(seq) : seq[i] = x
Examined == {examined[i] : i \in 1..Len(examined)}

\* player p passes the four checks when `team` is what has been selected so far
FitsAfter(team, p) ==
    LET same_team == TeamFrom(team, OriginTeam(p))
        same_role == {i \in same_team :
                         simplify_role(player_roles, team[i][1]) = simplify_role(player_roles, p)}
    IN  /\ Cardinality(same_team) < 6
        /\ Cardinality(same_role) < MAX_ROLE_PER_TEAM[simplify_role(player_roles, p)]
        /\ TeamCredits(team) + CreditsOfPlayer(p) <= 100
        /\ ~(IsForeignPlayer(p) /\ TeamForeign(team) >= 4)

\* C7: the score table lists team 1's players and then team 2's, each in roster
\* order; of two candidates with equal scores the one listed first is examined first;
\* so a slot of the team (the last one too) goes to a candidate only if every
\* candidate of the same score listed before it is in the team already or would
\* not have passed the checks
C7_FirstSeenWinsTies ==
    /\ (caller = "predict" /\ pc \in {"select", "loop", "assign"}) =>
          Keys(player_scores) = FirstSeen(Names(Entries(args)))
    /\ pc \in {"loop", "assign"} =>
          /\ \A a, b \in 1..Len(player_scores) :
                (a < b /\ player_scores[a][2] = player_scores[b][2]) =>
                    /\ PosIn(Keys(sorted_players), player_scores[a][1])
                          < PosIn(Keys(sorted_players), player_scores[b][1])
                    /\ player_scores[b][1] \in Examined =>
                          /\ player_scores[a][1] \in Examined
                          /\ PosIn(examined, player_scores[a][1])
                                < PosIn(examined, player_scores[b][1])
          /\ \A k \in 1..Len(selected_players), a \in 1..Len(player_scores) :
                (/\ player_scores[a][2] = selected_players[k][2]
                 /\ a < PosIn(Keys(player_scores), selected_players[k][1])
                 /\ FitsAfter(SubSeq(selected_players, 1, k - 1), player_scores[a][1])) =>
                    player_scores[a][1] \in TeamNames(SubSeq(selected_players, 1, k - 1))

\* C7's case: the 11th slot went to a candidate while a candidate of the same score,
\* listed later, would have passed the checks too; and a candidate of that score
\* listed earlier had been rejected
C7_Witness ==
    /\ pc = "assign"
    /\ caller = "predict"
    /\ Len(selected_players) = 11
    /\ \E b \in 1..Len(player_scores) :
          /\ player_scores[b][2] = selected_players[11][2]
          /\ b > PosIn(Keys(player_scores), selected_players[11][1])
          /\ player_scores[b][1] \notin Examined
          /\ FitsAfter(SubSeq(selected_players, 1, 10), player_scores[b][1])
    /\ \E a \in 1..Len(player_scores) :
          /\ player_scores[a][2] = selected_players[11][2]
          /\ player_scores[a][1] \in Rejected

\* C8: examining a candidate that fails a check changes neither the team nor the
\* totals nor any per-team or per-team-role count, and moves on to the next
\* candidate; no step of the pass removes a selected player or adds a rejected one
C8_RejectedIsSkipped ==
    [][pc = "loop" =>
        /\ NextFailsACheck =>
            /\ selected_players' = selected_players
            /\ total_credits' = total_credits
            /\ foreign_count' = foreign_count
            /\ \A T \in (DOMAIN team_counts) \cup (DOMAIN team_counts') :
                  Count(team_counts', T) = Count(team_counts, T)
            /\ \A T \in (DOMAIN role_team_counts) \cup (DOMAIN role_team_counts'),
                  R \in DOMAIN MAX_ROLE_PER_TEAM :
                  RoleCount(role_team_counts', T, R) = RoleCount(role_team_counts, T, R)
            /\ idx' = idx + 1
            /\ examined' = Append(examined, sorted_players[idx + 1][1])
        /\ IsPrefix(selected_players, selected_players')
        /\ Rejected \cap TeamNames(selected_players') = {}
    ]_vars

\* C8's case: a foreign candidate was left out while four foreign players were in
\* the team, and a candidate examined after it was accepted
C8_Witness ==
    /\ pc \in {"loop", "assign"}
    /\ foreign_count = 4
    /\ \E i \in 1..Len(examined) :
        /\ examined[i] \in Rejected
        /\ IsForeignPlayer(examined[i])
        /\ \E j \in (i + 1)..Len(examined) : examined[j] \in TeamNames(selected_players)


\* a history record with no head-to-head entry, no venue table and no recent form
NoHistory(rec) ==
    /\ h2h_of(rec) = EmptyDict
    /\ "venue" \notin DOMAIN rec
    /\ "recent_form" \notin DOMAIN rec

\* the player has no data in the batter cache nor in the bowler cache
NoData(p) ==
    /\ p \in DOMAIN batter_data => NoHistory(batter_data[p])
    /\ p \in DOMAIN bowler_data => NoHistory(bowler_data[p])

\* every listed player has an entry in the table, at 0 when the player has no data
ScoredAll(m, scores) ==
    \A p \in ListedPlayers(m) :
        /\ HasKey(scores, p)
        /\ NoData(p) => ValueOf(scores, p) = 0

\* C9: when predict_dream11 starts its selection and when it ends, every player of
\* the two playing elevens has an entry in the score table and is a candidate of the
\* pass, and a player without head-to-head, venue and recent-form data has the score
\* 0; a run ends with an error only over a roster entry "Name(Role" left unclosed,
\* never over the data a player lacks
C9_MissingDataScoresZero ==
    /\ (caller = "predict" /\ pc \in {"select", "loop", "assign"}) =>
          ScoredAll(args, player_scores)
    /\ (caller = "predict" /\ pc \in {"loop", "assign"}) =>
          ListedPlayers(args) = TeamNames(sorted_players)
    /\ \A i \in 1..Len(log) :
          IF "team" \in DOMAIN log[i].result
          THEN ScoredAll(log[i].args, log[i].scores)
          ELSE ~WellFormedMatch(log[i].args)

\* C9's case: a run ended with a team that holds a player without data, listed in a
\* playing eleven beside a player whose data earned points
C9_Witness ==
    \E i \in 1..Len(log) :
        /\ "team" \in DOMAIN log[i].result
        /\ \E p \in TeamNames(log[i].result.team) :
              /\ NoData(p)
              /\ p \notin DOMAIN batter_data
              /\ p \notin DOMAIN bowler_data
        /\ \E p \in ListedPlayers(log[i].args) : NoData(p) /\ p \in DOMAIN batter_data
        /\ \E j \in 1..Len(log[i].scores) : log[i].scores[j][2] > 0

\* the category the priority list of the claim gives a role text, letter case
\* set aside; "NONE" when the text holds no token
TokenCategory(role_text) ==
    LET r == lower(role_text)
    IN  IF Contains(r, lower(T_WK)) THEN "WICKETKEEPER"
        ELSE IF Contains(r, lower(T_Bowler)) THEN "BOWLER"
        ELSE IF \/ Contains(r, lower(T_All_Rounder)) \/ Contains(r, lower(T_Allrounder))
                \/ Contains(r, lower(T_AllSpRounder))
             THEN "ALL_ROUNDER"
        ELSE IF Contains(r, lower(T_Batter)) \/ Contains(r, lower(T_Batsman)) THEN "BATTER"
        ELSE "NONE"

ShortOf == [WICKETKEEPER |-> "WK", BOWLER |-> "BOWL", ALL_ROUNDER |-> "ALL", BATTER |-> "BAT"]
ListOf ==
    [WICKETKEEPER |-> "wicket_keepers", BOWLER |-> "bowlers",
     ALL_ROUNDER |-> "all_rounders", BATTER |-> "batsmen"]

\* C10: both classifiers of the code give a role text the category of the first
\* token it holds, in the order WK, Bowler, All-Rounder / Allrounder / All Rounder,
\* Batter / Batsman, whatever the letter case; so two role texts that differ in
\* letter case only get the same category from categorize_players and from
\* _simplify_role (stated of the candidates the pass has examined)
C10_CaseInsensitiveClassifiers ==
    /\ \A p \in Examined :
          TokenCategory(RoleText(p)) # "NONE" =>
              /\ simplify_role(player_roles, p) = ShortOf[TokenCategory(RoleText(p))]
              /\ categorize_one(RoleText(p), p, batter_data, bowler_data)
                    = ListOf[TokenCategory(RoleText(p))]
    /\ \A p, q \in Examined :
          lower(RoleText(p)) = lower(RoleText(q)) =>
              /\ simplify_role(player_roles, p) = simplify_role(player_roles, q)
              /\ categorize_one(RoleText(p), p, batter_data, bowler_data)
                    = categorize_one(RoleText(q), p, batter_data, bowler_data)


\* the player is in the list `name` of a categorize_players result
InList(categorized, name, player) ==
    \E i \in 1..Len(categorized[name]) : categorized[name][i][1] = player

\* C11: categorize_players puts every player in exactly one of its four lists, and a
\* player whose role text holds no token goes by history: batting only to the
\* batsmen (to the wicket-keepers when the name is on the list of exceptions),
\* bowling only to the bowlers, both to the all-rounders, neither to the batsmen
C11_FallbackByHistory ==
    pc = "categorized" =>
        \A i \in 1..Len(args.sorted_players) :
            LET p == args.sorted_players[i][1]
                has_batting == p \in DOMAIN batter_data
                has_bowling == p \in DOMAIN bowler_data
            IN  /\ Cardinality({c \in DOMAIN result : InList(result, c, p)}) = 1
                /\ TokenCategory(RoleText(p)) = "NONE" =>
                      InList(result,
                             IF has_batting /\ ~has_bowling
                             THEN (IF p \in WK_NAMES THEN "wicket_keepers" ELSE "batsmen")
                             ELSE IF has_bowling /\ ~has_batting THEN "bowlers"
                             ELSE IF has_batting /\ has_bowling THEN "all_rounders"
                             ELSE "batsmen",
                             p)

\* a cache whose lists of encounters are each replaced by their first record
FirstRecords(data) ==
    [p \in DOMAIN data |->
        IF "head_to_head" \in DOMAIN data[p]
        THEN [data[p] EXCEPT !["head_to_head"] =
                 [o \in DOMAIN @ |-> first_encounter(@[o])]]
        ELSE data[p]]

\* C12: a non-empty list of encounters is scored as its first record, for the batting
\* and for the bowling contribution: the scores of a match are those the caches give
\* once every list is replaced by its first record
C12_ListScoredAsFirstRecord ==
    (pc = "select" /\ caller = "predict") =>
        player_scores = match_scores(FirstRecords(batter_data), FirstRecords(bowler_data),
                                     args)

\* lines 358-370: the score table as analyze_recent_form finds it
scores_before_form(bd, bwd, m) ==
    LET team1_players == Names(m.team1_playing11)
        team2_players == Names(m.team2_playing11)
        all_players == Names(m.team1_playing11 \o m.team2_playing11)
        s1 == analyze_head_to_head(<<>>, bd, bwd, team1_players, team2_players)
        s2 == analyze_head_to_head(s1, bd, bwd, team2_players, team1_players)
    IN  analyze_venue_performance(s2, bd, bwd, m.venue, all_players)

\* the tables of a recent_form list that carry the label and have rows
TablesOf(data, player, label) ==
    IF player \in DOMAIN data /\ "recent_form" \in DOMAIN data[player]
    THEN SelectSeq(data[player]["recent_form"],
                   LAMBDA t : t.label = label /\ t.rows # <<>>)
    ELSE <<>>

\* mean(runs)/10 + mean(strike rate)/100 over the tables, in hundredths
RECURSIVE BattingFormPoints(_)
BattingFormPoints(tables) ==
    IF tables = <<>> THEN 0
    ELSE (SumOf(Head(tables).rows, "Runs") * 10) \div Len(Head(tables).rows)
         + SumOf(Head(tables).rows, "StrikeRate") \div Len(Head(tables).rows)
         + BattingFormPoints(Tail(tables))

\* mean(wickets)*5 + (10 - min(mean(economy), 10)) over the tables, in hundredths
RECURSIVE BowlingFormPoints(_)
BowlingFormPoints(tables) ==
    IF tables = <<>> THEN 0
    ELSE (SumOf(Head(tables).rows, "Wickets") * 500) \div Len(Head(tables).rows)
         + economy_points(SumOf(Head(tables).rows, "Economy") \div Len(Head(tables).rows)) * 100
         + BowlingFormPoints(Tail(tables))

\* C13: the recent-form pass adds to a listed player's score what the "Batting
\* Match-wise" and "Bowling Match-wise" tables are worth, so a player with a batting
\* table of non-zero runs leaves the pass with another score than it entered with
C13_RecentFormCounts ==
    (pc = "select" /\ caller = "predict") =>
        \A p \in ListedPlayers(args) :
            LET before == ValueOf(scores_before_form(batter_data, bowler_data, args), p)
                batting == TablesOf(batter_data, p, "Batting Match-wise")
                bowling == TablesOf(bowler_data, p, "Bowling Match-wise")
            IN  /\ ValueOf(player_scores, p) =
                      before + BattingFormPoints(batting) + BowlingFormPoints(bowling)
                /\ (\E i \in 1..Len(batting) : SumOf(batting[i].rows, "Runs") > 0) =>
                      ValueOf(player_scores, p) # before

\* the four checks of the selection loop, lines 321-330, let player p through
PassesSelectionChecks(p, total, fcount) ==
    /\ ~TeamFull(team_counts, OriginTeam(p))
    /\ ~RoleFull(role_team_counts, OriginTeam(p), simplify_role(player_roles, p))
    /\ ~OverBudget(total, CreditsOfPlayer(p))
    /\ ~ForeignFull(IsForeignPlayer(p), fcount)

\* C14: ensure_minimum_requirements reserves at most one player per category and no
\* player twice; a player it reserves passes the four checks of the selection loop
\* (origin-team cap, origin-team role cap, budget, foreign cap); and it returns the
\* totals it was given, raised by the credits and the foreign flags of the reserved
C14_PrePassChecks ==
    [][ /\ pc = "ensure" =>
            /\ Len(selected_players') <= idx'
            /\ NoRepeats([i \in 1..Len(selected_players') |-> selected_players'[i][1]])
            /\ selected_players' # selected_players =>
                  /\ selected_players' =
                        Append(selected_players, selected_players'[Len(selected_players')])
                  /\ PassesSelectionChecks(selected_players'[Len(selected_players')][1],
                                           total_credits, foreign_count)
        /\ pc = "ensured" =>
            /\ result'.total_credits = args.total_credits + TeamCredits(result'.reserved)
            /\ result'.foreign_count = args.foreign_count + TeamForeign(result'.reserved)
      ]_vars

\* the selected players of origin team T whose _simplify_role is R
TeamRoleFrom(team, T, R) ==
    {i \in TeamFrom(team, T) : simplify_role(player_roles, team[i][1]) = R}

\* the origin teams a counter or a player can name
KnownTeams ==
    DOMAIN team_counts \cup DOMAIN role_team_counts
    \cup {OriginTeam(player_scores[i][1]) : i \in 1..Len(player_scores)}

\* C15: at every step of the selection loop and at the return the counters agree with
\* the team so far: total_credits is the sum of its credits (7 for a player without
\* an entry), foreign_count the number of its foreign players, team_counts[T] the
\* number of its players of origin team T, and role_team_counts[T][R] the number of
\* those whose _simplify_role is R
C15_CountersAgreeWithTeam ==
    (pc \in {"loop", "assign"} \/ Returned) =>
        /\ total_credits = TeamCredits(selected_players)
        /\ foreign_count = TeamForeign(selected_players)
        /\ \A T \in KnownTeams :
            /\ Count(team_counts, T) = Cardinality(TeamFrom(selected_players, T))
            /\ \A R \in DOMAIN MAX_ROLE_PER_TEAM :
                  RoleCount(role_team_counts, T, R)
                      = Cardinality(TeamRoleFrom(selected_players, T, R))
        /\ Returned =>
            /\ result.team = selected_players
            /\ result.total_credits = TeamCredits(result.team)
            /\ result.foreign_count = TeamForeign(result.team)

\* C15's case: a returned team of two origin teams and several role categories, with
\* foreign players at the cap, players without a credits entry, and candidates the
\* loop examined and left out
C15_Witness ==
    /\ Returned
    /\ Len(result.team) >= 8
    /\ player_credits = EmptyDict
    /\ result.foreign_count = 4
    /\ Cardinality(OriginTeams(result.team)) >= 2
    /\ Cardinality({simplify_role(player_roles, result.team[i][1]) :
                        i \in 1..Len(result.team)}) >= 3
    /\ Rejected # {}

\* the scores of a team never rise from one place to the next
ScoresNeverRise(team) == \A i, j \in 1..Len(team) : i < j => team[i][2] >= team[j][2]

\* the candidates of the score table that are not in the team
Unselected(team) == {player_scores[i][1] : i \in 1..Len(player_scores)} \ TeamNames(team)

\* C16: the greedy result is maximal. With non-negative credits a candidate the loop
\* examined and left out fails one of the four checks against the team so far, and so
\* against the team returned; a returned team of fewer than 11 players therefore
\* admits no candidate that is not in it. The team lists its players in order of
\* non-increasing score, and no player twice.
C16_GreedyMaximal ==
    (pc \in {"loop", "assign"} \/ Returned) =>
        /\ ScoresNeverRise(selected_players)
        /\ NoRepeats([i \in 1..Len(selected_players) |-> selected_players[i][1]])
        /\ NonNegativeCredits =>
              \A p \in Rejected : ~FitsAfter(selected_players, p)
        /\ Returned =>
              /\ ScoresNeverRise(result.team)
              /\ NoRepeats([i \in 1..Len(result.team) |-> result.team[i][1]])
              /\ (NonNegativeCredits /\ Len(result.team) < TEAM_SIZE) =>
                    \A p \in Unselected(result.team) : ~FitsAfter(result.team, p)

\* C16's case: a returned team short of 11 whose scores tie in one place and drop in
\* another, with a candidate left out for the budget alone and one left out for a cap
C16_Witness ==
    /\ Returned
    /\ NonNegativeCredits
    /\ Len(result.team) >= 3
    /\ Len(result.team) < TEAM_SIZE
    /\ \E i, j \in 1..(Len(result.team) - 1) :
          /\ result.team[i][2] = result.team[i + 1][2]
          /\ result.team[j][2] > result.team[j + 1][2]
    /\ \E p \in Unselected(result.team) :
          TeamCredits(result.team) + CreditsOfPlayer(p) > max_credits
    /\ \E p \in Unselected(result.team) :
          TeamCredits(result.team) + CreditsOfPlayer(p) <= max_credits

====
